---- MODULE Spec2Model ----
(***************************************************************************)
(* Model of parser_engine/itemclassloader.py: the ItemClassLoader registry *)
(* (bulk discovery of scrapy Item classes under the configured item        *)
(* modules, lookup by short name, import-on-call by dotted path).          *)
(*                                                                         *)
(* A dotted name is the sequence of its '.'-separated segments:            *)
(* "shop.items.product.Product" is <<"shop","items","product","Product">>, *)
(* a short name "Product" is <<"Product">> and "" is <<>>.  Segments are   *)
(* non-empty and contain no '.', so the representation is one-to-one.      *)
(***************************************************************************)
EXTENDS Naturals, Sequences, FiniteSets, TLC

VARIABLES
    pc,            \* "new": inside __init__, after self.__init(settings); "ready"; "failed"
    settings,      \* the configuration source: ITEM_MODULES, BOT_NAME, WARN_ONLY
    item_modules,  \* self.item_modules, the root list
    _items,        \* self._items: key -> class (DiscoveryIndex)
    _found,        \* self._found: short name -> sequence of <<module, class name>>
    _loaded,       \* self._loaded (LoadedFlag)
    warn_only,     \* the attribute self.warn_only, "unset" while never assigned
    runs,          \* number of _load_all_items executions so far
    fallback,      \* history: path -> the class load's import returned for it
    lazy_aborted,  \* history: a lazy bootstrap of list, get or load was aborted
    lastOp         \* the last public call: its argument, result and effects

vars == <<pc, settings, item_modules, _items, _found, _loaded, warn_only, runs, fallback, lazy_aborted, lastOp>>

(***************************************************************************)
(* Bounds                                                                  *)
(***************************************************************************)
\* executions of _load_all_items (each one appends to _found)
MaxRuns == 2
\* length of the root list (_load_all_items(extraRoot) appends to it)
MaxRoots == 2

(***************************************************************************)
(* Python values                                                           *)
(***************************************************************************)
NoneVal == [kind |-> "none", mod |-> <<>>, name |-> "", item |-> FALSE, truthy |-> FALSE]

\* a class object: declaring module (__module__), __name__, subclass of scrapy.Item?
Class(m, n, isItem) == [kind |-> "class", mod |-> m, name |-> n, item |-> isItem, truthy |-> TRUE]

\* any other module attribute (constant, function, submodule), truthy or falsy
Value(m, n, t) == [kind |-> "value", mod |-> m, name |-> n, item |-> FALSE, truthy |-> t]

\* inspect.isclass
isclass(v) == v.kind = "class"

\* bool(v)
Truthy(v) == v.truthy

(***************************************************************************)
(* The importable world: module names and their top-level bindings         *)
(***************************************************************************)
ShopItems == <<"shop", "items">>
ShopLegacy == <<"shop", "items", "legacy">>
ShopProduct == <<"shop", "items", "product">>
CrawlItems == <<"crawl", "items">>
BadRoot == <<"bad", "root">>
ShopBroken == <<"shop", "broken">>
ScrapyItem == <<"scrapy", "item">>

Bind(a, v) == [attr |-> a, val |-> v]

\* vars(module), in definition order
Members(m) ==
    IF m = ShopItems THEN
        \* the package re-exports Product: from .product import Product
        << Bind("Product", Class(ShopProduct, "Product", TRUE)) >>
    ELSE IF m = ShopLegacy THEN
        << Bind("Item", Class(ScrapyItem, "Item", TRUE)),
           Bind("Product", Class(ShopLegacy, "Product", TRUE)) >>
    ELSE IF m = ShopProduct THEN
        << Bind("Item", Class(ScrapyItem, "Item", TRUE)),
           Bind("VERSION", Value(ShopProduct, "VERSION", TRUE)),
           Bind("DEBUG", Value(ShopProduct, "DEBUG", FALSE)),
           Bind("Helper", Class(ShopProduct, "Helper", FALSE)),
           Bind("Product", Class(ShopProduct, "Product", TRUE)) >>
    ELSE IF m = CrawlItems THEN
        << Bind("Item", Class(ScrapyItem, "Item", TRUE)),
           Bind("Order", Class(CrawlItems, "Order", TRUE)),
           Bind("Product", Class(CrawlItems, "Product", TRUE)) >>
    ELSE << >>

\* modules whose import succeeds
Modules == {ShopItems, ShopLegacy, ShopProduct, CrawlItems}

\* importlib.import_module(m): "ok" or the exception it raises; the body of
\* shop.broken raises a RuntimeError, every other name is not found
import_module(m) ==
    IF m \in Modules THEN "ok"
    ELSE IF m = ShopBroken THEN "RuntimeError"
    ELSE "ModuleNotFoundError"

\* hasattr / getattr on an imported module
HasAttr(m, a) == \E i \in 1..Len(Members(m)) : Members(m)[i].attr = a

GetAttr(m, a) == Members(m)[CHOOSE i \in 1..Len(Members(m)) : Members(m)[i].attr = a].val

\* scrapy.utils.misc.walk_modules(root): the root module followed by its
\* submodules, or ImportError as a whole when the root cannot be imported
walk_modules(root) ==
    IF root = ShopItems THEN [raised |-> "none", mods |-> <<ShopItems, ShopLegacy, ShopProduct>>]
    ELSE IF root = CrawlItems THEN [raised |-> "none", mods |-> <<CrawlItems>>]
    ELSE [raised |-> "ImportError", mods |-> << >>]

(***************************************************************************)
(* The registry object and its methods, as functions of the object state   *)
(* s = [item_modules, _items, _found, _loaded, warn_only].  A method       *)
(* yields the state it leaves, what it returns and the exception it        *)
(* raises ("none" when it returns normally).                               *)
(***************************************************************************)
Outcome(s, ret, raised, discovered, imported) ==
    [s |-> s, ret |-> ret, raised |-> raised, discovered |-> discovered, imported |-> imported]

\* dict assignment d[k] = v
DictSet(d, k, v) == [x \in DOMAIN d \cup {k} |-> IF x = k THEN v ELSE d[x]]

\* defaultdict(list): d[k].append(v)
ListAppend(d, k, v) ==
    [x \in DOMAIN d \cup {k} |-> IF x = k
                                   THEN (IF k \in DOMAIN d THEN Append(d[k], v) ELSE <<v>>)
                                   ELSE d[x]]

\* dict.get(k)
DictGet(d, k) == IF k \in DOMAIN d THEN d[k] ELSE NoneVal

\* self.__init(settings)
init_state(cfg) ==
    [item_modules |-> cfg.ITEM_MODULES,
     _items |-> << >>,
     _found |-> << >>,
     _loaded |-> FALSE,
     warn_only |-> "unset"]

\* variant: the filter does not compare the declaring module
is_item_class_anywhere(obj, m) == isclass(obj) /\ obj.item

\* the filter of iter_item_classes
is_item_class(obj, m) == isclass(obj) /\ obj.item /\ obj.mod = m

\* iter_item_classes(module): the classes it yields, in vars(module) order
iter_item_classes(m) ==
    LET keep(b) == is_item_class(b.val, m)
    IN  SelectSeq(Members(m), keep)

\* variant: a short name already indexed keeps its first class
load_item_first_wins(s, m, spcls) ==
    [s EXCEPT !._found = ListAppend(s._found, spcls.name, <<m, spcls.name>>),
              !._items = IF <<spcls.name>> \in DOMAIN s._items
                         THEN s._items
                         ELSE DictSet(s._items, <<spcls.name>>, spcls)]

\* variant: an occurrence already recorded is not recorded again
load_item_logs_once(s, m, spcls) ==
    [s EXCEPT !._found = IF spcls.name \in DOMAIN s._found
                             /\ \E i \in 1..Len(s._found[spcls.name]) :
                                    s._found[spcls.name][i] = <<m, spcls.name>>
                         THEN s._found
                         ELSE ListAppend(s._found, spcls.name, <<m, spcls.name>>),
              !._items = DictSet(s._items, <<spcls.name>>, spcls)]

\* the body of the loop of _load_items, for one class
load_item(s, m, spcls) ==
    [s EXCEPT !._found = ListAppend(s._found, spcls.name, <<m, spcls.name>>),
              !._items = DictSet(s._items, <<spcls.name>>, spcls)]

RECURSIVE load_items_from(_, _, _, _)
load_items_from(s, m, classes, i) ==
    IF i > Len(classes) THEN s
    ELSE load_items_from(load_item(s, m, classes[i].val), m, classes, i + 1)

\* _load_items(module)
_load_items(s, m) == load_items_from(s, m, iter_item_classes(m), 1)

RECURSIVE load_modules_from(_, _, _)
load_modules_from(s, mods, i) ==
    IF i > Len(mods) THEN s
    ELSE load_modules_from(_load_items(s, mods[i]), mods, i + 1)

\* the except ImportError handler of _load_all_items: "skip" the root or the
\* exception that leaves the method.  Reading the attribute warn_only, which
\* no code assigns, raises AttributeError inside the handler.
on_import_error(s) ==
    IF s.warn_only = "unset" THEN "AttributeError"
    ELSE IF s.warn_only = "true" THEN "skip"
    ELSE "ImportError"

\* the value _load_all_items stores in _loaded when the loop is over
loaded_on_completion == TRUE

\* the for loop of _load_all_items from the i-th root on, and the final
\* assignment of _loaded
RECURSIVE scan_roots(_, _)
scan_roots(s, i) ==
    IF i > Len(s.item_modules)
    THEN Outcome([s EXCEPT !._loaded = loaded_on_completion], NoneVal, "none", TRUE, {})
    ELSE LET w == walk_modules(s.item_modules[i])
         IN  IF w.raised = "none"
             THEN scan_roots(load_modules_from(s, w.mods, 1), i + 1)
             ELSE IF on_import_error(s) = "skip"
                  THEN scan_roots(s, i + 1)
                  ELSE Outcome(s, NoneVal, on_import_error(s), TRUE, {})

\* variant: the flag is set before the roots are scanned
scan_start_sets_flag(s, extra) ==
    IF extra # << >>
    THEN [s EXCEPT !.item_modules = Append(s.item_modules, extra), !._loaded = TRUE]
    ELSE [s EXCEPT !._loaded = TRUE]

\* variant: the extra root replaces the root list
scan_start_replaces(s, extra) ==
    IF extra # << >>
    THEN [s EXCEPT !.item_modules = <<extra>>]
    ELSE s

\* variant: the scan starts from an emptied index
scan_start_reinit(s, extra) ==
    IF extra # << >>
    THEN [s EXCEPT !.item_modules = Append(s.item_modules, extra), !._items = << >>]
    ELSE [s EXCEPT !._items = << >>]

\* variant: the scan first marks the registry as not loaded
scan_start_clears_flag(s, extra) ==
    IF extra # << >>
    THEN [s EXCEPT !.item_modules = Append(s.item_modules, extra), !._loaded = FALSE]
    ELSE [s EXCEPT !._loaded = FALSE]

\* the state _load_all_items starts its loop from
scan_start(s, extra) ==
    IF extra # << >>
    THEN [s EXCEPT !.item_modules = Append(s.item_modules, extra)]
    ELSE s

\* _load_all_items(item_modules=None); extra = << >> stands for None
_load_all_items(s, extra) == scan_roots(scan_start(s, extra), 1)

\* variant: list runs the discovery at every call
list_always_discovers(s) == scan_roots(s, 1)

\* list(): the keys it returns are those of the state it leaves
list(s) ==
    IF ~s._loaded
    THEN _load_all_items(s, << >>)
    ELSE Outcome(s, NoneVal, "none", FALSE, {})

\* variant: get runs the discovery at every call
get_always_bootstraps(s) == TRUE

\* variant: get never runs the discovery
get_never_bootstraps(s) == FALSE

\* the lazy bootstrap of get: does get run _load_all_items in state s?
get_bootstraps(s) == ~s._loaded

\* get(name)
get(s, name) ==
    IF name = << >> THEN Outcome(s, NoneVal, "none", FALSE, {})
    ELSE IF get_bootstraps(s)
         THEN LET r == _load_all_items(s, << >>)
              IN  IF r.raised # "none" THEN r
                  ELSE Outcome(r.s, DictGet(r.s._items, name), "none", TRUE, {})
         ELSE Outcome(s, DictGet(s._items, name), "none", FALSE, {})

\* variant: the imported class is stored under its short name
cache_key_short(name, cls_name) == cls_name

\* the key under which load stores the imported class: the full name
cache_key(name, cls_name) == name

\* the value load returns after the import: the attribute it fetched
fallback_result(cls) == cls

\* the try block of load(name)
load_try(s, name) ==
    LET g == get(s, name)
    IN  IF g.raised # "none" THEN g
        ELSE IF ~Truthy(g.ret) /\ name # << >>
        THEN IF Len(name) < 2
             \* name.rsplit('.', 1) yields one part: the unpacking fails
             THEN Outcome(g.s, NoneVal, "ValueError", g.discovered, {})
             ELSE LET module == SubSeq(name, 1, Len(name) - 1)
                      cls_name == name[Len(name)]
                  IN  IF import_module(module) # "ok"
                      THEN Outcome(g.s, NoneVal, import_module(module), g.discovered, {module})
                      ELSE IF ~HasAttr(module, cls_name)
                      THEN Outcome(g.s, NoneVal, "AttributeError", g.discovered, {module})
                      ELSE LET cls == GetAttr(module, cls_name)
                           IN  IF Truthy(cls) /\ isclass(cls)
                               THEN Outcome([g.s EXCEPT !._items =
                                                DictSet(g.s._items, cache_key(name, <<cls_name>>), cls)],
                                            cls, "none", g.discovered, {module})
                               ELSE Outcome(g.s, fallback_result(cls), "none", g.discovered, {module})
        ELSE g

\* variant: only the import errors are caught
caught_import_errors_only(e) == e \in {"ImportError", "ModuleNotFoundError"}

\* except (ImportError, ModuleNotFoundError, Exception): every exception the
\* try block raises here derives from Exception
caught_by_load(e) ==
    e \in {"ImportError", "ModuleNotFoundError", "AttributeError", "ValueError", "RuntimeError"}

\* load(name): a caught exception becomes a warning and the implicit None
load(s, name) ==
    LET r == load_try(s, name)
    IN  IF r.raised # "none" /\ caught_by_load(r.raised)
        THEN [r EXCEPT !.ret = NoneVal, !.raised = "none"]
        ELSE r

(***************************************************************************)
(* Inputs                                                                  *)
(***************************************************************************)
Roots == {ShopItems, CrawlItems, BadRoot}

\* the ITEM_MODULES lists: each root at most once
RootLists ==
    {l \in UNION {[1..n -> Roots] : n \in 0..MaxRoots} :
        \A i, j \in 1..Len(l) : l[i] = l[j] => i = j}

BotNames == {<<"shop">>, <<"ghost">>}

\* the warn-only toggle of the configuration: on or off
WarnOnlyModes == BOOLEAN

Settings == [ITEM_MODULES : RootLists, BOT_NAME : BotNames, WARN_ONLY : WarnOnlyModes]

\* the dotted paths callers pass to load
Paths ==
    { << >>, <<"Product">>,
      ShopProduct \o <<"Product">>, ShopProduct \o <<"Helper">>,
      ShopProduct \o <<"VERSION">>, ShopProduct \o <<"DEBUG">>,
      ShopProduct \o <<"Nope">>, ShopBroken \o <<"Thing">>, <<"not", "real", "Bar">> }

\* the names callers pass to get
Names == { << >>, <<"Product">>, <<"Order">>, ShopProduct \o <<"Product">> }

(***************************************************************************)
(* The state machine: one registry object and the calls made on it         *)
(***************************************************************************)
\* the object state as a record
Self ==
    [item_modules |-> item_modules, _items |-> _items, _found |-> _found,
     _loaded |-> _loaded, warn_only |-> warn_only]

\* the object state after a call, and the record of the call
Effect(op, arg, r) ==
    /\ item_modules' = r.s.item_modules
    /\ _items' = r.s._items
    /\ _found' = r.s._found
    /\ _loaded' = r.s._loaded
    /\ warn_only' = r.s.warn_only
    /\ runs' = IF r.discovered THEN runs + 1 ELSE runs
    /\ fallback' = IF op = "load" /\ r.imported # {} /\ r.raised = "none" /\ isclass(r.ret)
                   THEN DictSet(fallback, arg, r.ret)
                   ELSE fallback
    /\ lazy_aborted' = (\/ lazy_aborted
                        \/ op \in {"list", "get", "load"} /\ r.discovered /\ ~r.s._loaded)
    /\ lastOp' = [op |-> op, arg |-> arg, ret |-> r.ret, raised |-> r.raised,
                  keys |-> IF op = "list" /\ r.raised = "none" THEN DOMAIN r.s._items ELSE {},
                  discovered |-> r.discovered, imported |-> r.imported]

Init ==
    /\ pc = "new"
    /\ settings \in Settings
    /\ item_modules = init_state(settings).item_modules
    /\ _items = init_state(settings)._items
    /\ _found = init_state(settings)._found
    /\ _loaded = init_state(settings)._loaded
    /\ warn_only = init_state(settings).warn_only
    /\ runs = 0
    /\ fallback = << >>
    /\ lazy_aborted = FALSE
    /\ lastOp = [op |-> "__init", arg |-> << >>, ret |-> NoneVal, raised |-> "none",
                 keys |-> {}, discovered |-> FALSE, imported |-> {}]

\* the default root of an eager construction
default_root(cfg) == cfg.BOT_NAME \o <<"items">>

\* __init__(lazy_load, settings), from the return of self.__init(settings) on
Construct(lazy_load) ==
    /\ pc = "new"
    /\ \E r \in {IF ~lazy_load
                 THEN _load_all_items(Self, default_root(settings))
                 ELSE Outcome(Self, NoneVal, "none", FALSE, {})} :
           /\ Len(r.s.item_modules) <= MaxRoots
           /\ Effect("__init__", IF lazy_load THEN << >> ELSE default_root(settings), r)
           /\ pc' = IF r.raised = "none" THEN "ready" ELSE "failed"
    /\ UNCHANGED settings

\* _load_all_items(extra), called on the constructed object
DiscoverAll(extra) ==
    /\ pc = "ready"
    /\ runs < MaxRuns
    /\ extra # << >> => Len(item_modules) < MaxRoots
    /\ \E r \in {_load_all_items(Self, extra)} : Effect("discoverAll", extra, r)
    /\ UNCHANGED <<pc, settings>>

List ==
    /\ pc = "ready"
    /\ \E r \in {list(Self)} :
           /\ r.discovered => runs < MaxRuns
           /\ Effect("list", << >>, r)
    /\ UNCHANGED <<pc, settings>>

Get(name) ==
    /\ pc = "ready"
    /\ \E r \in {get(Self, name)} :
           /\ r.discovered => runs < MaxRuns
           /\ Effect("get", name, r)
    /\ UNCHANGED <<pc, settings>>

Load(name) ==
    /\ pc = "ready"
    /\ \E r \in {load(Self, name)} :
           /\ r.discovered => runs < MaxRuns
           /\ Effect("load", name, r)
    /\ UNCHANGED <<pc, settings>>

Next ==
    \/ \E lazy_load \in BOOLEAN : Construct(lazy_load)
    \/ \E extra \in Roots \cup {<< >>} : DiscoverAll(extra)
    \/ List
    \/ \E name \in Names : Get(name)
    \/ \E name \in Paths : Load(name)

Spec == Init /\ [][Next]_vars

TypeOK ==
    /\ pc \in {"new", "ready", "failed"}
    /\ _loaded \in BOOLEAN
    /\ runs \in 0..MaxRuns
    /\ Len(item_modules) <= MaxRoots

(***************************************************************************)
(* Vocabulary of the properties                                            *)
(***************************************************************************)
\* the step is the call op(arg)
Called(op, arg) == lastOp'.op = op /\ lastOp'.arg = arg

\* the containing module and the class name of a dotted path
ModuleOf(p) == SubSeq(p, 1, Len(p) - 1)
ClassNameOf(p) == p[Len(p)]

\* the path has a separator and its module imports
Importable(p) == Len(p) >= 2 /\ import_module(ModuleOf(p)) = "ok"

\* the path names an attribute of an importable module
NamesAttribute(p) == Importable(p) /\ HasAttr(ModuleOf(p), ClassNameOf(p))

\* the path is resolvable: the attribute it names is a class
Resolvable(p) == NamesAttribute(p) /\ isclass(GetAttr(ModuleOf(p), ClassNameOf(p)))

\* the class a resolvable path names
TargetClass(p) == GetAttr(ModuleOf(p), ClassNameOf(p))

\* the root can be walked
ResolvableRoot(root) == walk_modules(root).raised = "none"

AllRootsResolvable == \A i \in 1..Len(item_modules) : ResolvableRoot(item_modules[i])

\* the last call ran the discovery and the discovery was aborted
BootstrapAborted == lastOp.discovered /\ ~_loaded

\* the last call was a load whose import returned a class
FallbackHit == lastOp.op = "load" /\ lastOp.imported # {} /\ isclass(lastOp.ret)

(***************************************************************************)
(* C1  Fallback caching                                                    *)
(***************************************************************************)
C1_Step ==
    \A p \in DOMAIN fallback :
        /\ Called("get", p) =>
              /\ lastOp'.raised = "none"
              /\ lastOp'.ret = fallback[p]
              /\ lastOp'.imported = {}
        /\ Called("load", p) =>
              /\ lastOp'.ret = fallback[p]
              /\ lastOp'.imported = {}

\* C1: once load(p) has returned a class C through the fallback import, every
\* later get(p) returns C, and every later load(p) returns C without importing
\* the containing module again, whatever calls were made in between.
C1_FallbackCaching == [][C1_Step]_vars

\* a get of a path that an earlier load imported and cached
C1_Witness ==
    /\ lastOp.op = "get"
    /\ lastOp.arg \in DOMAIN fallback
    /\ lastOp.ret = fallback[lastOp.arg]
    /\ lastOp.imported = {}

(***************************************************************************)
(* C2  load is total                                                       *)
(***************************************************************************)
\* C2: load(path) never raises: for every path and in every registry state it
\* returns a value or nothing.
C2_LoadTotal == lastOp.op = "load" => lastOp.raised = "none"

\* load absorbed the failure of the lazy bootstrap it triggered
C2_Witness ==
    /\ lastOp.op = "load"
    /\ BootstrapAborted
    /\ lastOp.raised = "none"
    /\ lastOp.ret = NoneVal

(***************************************************************************)
(* C3  Fallback load of a resolvable path                                  *)
(***************************************************************************)
C3_Succeeds(p) ==
    /\ lastOp'.ret = TargetClass(p)
    /\ p \in DOMAIN _items'
    /\ DictGet(_items', p) = TargetClass(p)

C3_OriginalStep ==
    \A p \in Paths :
        (Called("load", p) /\ p # << >> /\ p \notin DOMAIN _items /\ Resolvable(p))
            => C3_Succeeds(p)

\* C3 as stated: in every registry state, load of a non-empty resolvable path
\* that is not a key of the index returns its class and indexes it under the
\* path.
C3_Original == [][C3_OriginalStep]_vars

C3_Step ==
    \A p \in Paths :
        (/\ Called("load", p) /\ p # << >> /\ p \notin DOMAIN _items /\ Resolvable(p)
         /\ (_loaded \/ AllRootsResolvable))
            => C3_Succeeds(p)

\* C3 amended: the same, in the Loaded state or in a NotLoaded state whose
\* configured roots are all resolvable (otherwise the lazy bootstrap inside
\* load fails, load absorbs the failure and returns nothing).
C3_FallbackLoad == [][C3_Step]_vars

\* a fallback load that also ran the lazy bootstrap
C3_Witness ==
    /\ FallbackHit
    /\ lastOp.discovered
    /\ lastOp.arg \in DOMAIN _items
    /\ _items[lastOp.arg] = lastOp.ret

(***************************************************************************)
(* C4  Warn-only skip                                                      *)
(***************************************************************************)
\* the keys discovery gives to the record classes under a root
RecordClassKeys(root) ==
    LET mods == walk_modules(root).mods
    IN  UNION { { <<iter_item_classes(mods[i])[j].val.name>> :
                    j \in 1..Len(iter_item_classes(mods[i])) } : i \in 1..Len(mods) }

ExactlyOneOfTwoUnresolvable ==
    /\ Len(item_modules) = 2
    /\ Cardinality({i \in 1..2 : ~ResolvableRoot(item_modules[i])}) = 1

\* C4: with warn-only mode enabled and exactly one of two configured roots
\* unresolvable, discoverAll() completes without raising, LoadedFlag is true
\* afterwards and every record class of the resolvable root is a key of the
\* index that list() returns.
C4_WarnOnlySkip ==
    (/\ settings.WARN_ONLY
     /\ lastOp.op = "discoverAll" /\ lastOp.arg = << >>
     /\ ExactlyOneOfTwoUnresolvable)
        => /\ lastOp.raised = "none"
           /\ _loaded
           /\ \A i \in 1..2 :
                  ResolvableRoot(item_modules[i]) => RecordClassKeys(item_modules[i]) \subseteq DOMAIN _items

(***************************************************************************)
(* C5  The named attribute is not a class                                  *)
(***************************************************************************)
\* the last call was a load whose import found an attribute that is no class
FallbackFoundNonClass ==
    /\ lastOp.op = "load"
    /\ lastOp.imported # {}
    /\ NamesAttribute(lastOp.arg)
    /\ ~isclass(TargetClass(lastOp.arg))

\* C5: when the fallback of load(path) imports the module and finds the named
\* attribute but the attribute is not a class, load returns nothing and inserts
\* no entry into the index.
C5_NonClassAttribute ==
    FallbackFoundNonClass => (lastOp.ret = NoneVal /\ lastOp.arg \notin DOMAIN _items)

(***************************************************************************)
(* C6  Failed resolution                                                   *)
(***************************************************************************)
\* import failure, missing attribute or no separator
Unresolved(p) == p # << >> /\ ~NamesAttribute(p)

C6_Fails(p) ==
    /\ Called("load", p)
    /\ p \notin DOMAIN _items
    /\ Unresolved(p)
    /\ ~isclass(lastOp'.ret)

C6_Conclusion(p) ==
    /\ lastOp'.raised = "none"
    /\ lastOp'.ret = NoneVal
    /\ p \notin DOMAIN _items'
    /\ _loaded => UNCHANGED <<item_modules, _items, _found, _loaded>>

C6_OriginalStep == \A p \in Paths : C6_Fails(p) => C6_Conclusion(p)

\* C6 as stated: when load(path) fails to resolve a path that is not in the
\* index (module not importable, attribute missing, no separator), it returns
\* nothing and the index has no entry under path afterwards; in the Loaded
\* state the whole registry state is unchanged.
C6_Original == [][C6_OriginalStep]_vars

C6_Step ==
    \A p \in Paths : (C6_Fails(p) /\ ~(lastOp'.discovered /\ ~_loaded')) => C6_Conclusion(p)

\* C6 amended: the same, provided the lazy bootstrap that load may trigger is
\* not aborted (an aborted bootstrap is absorbed by load, which returns nothing
\* although the roots scanned before the abort may have indexed the short name).
C6_FailedResolution == [][C6_Step]_vars

\* a load without separator that failed in the Loaded state
C6_Witness ==
    /\ lastOp.op = "load"
    /\ Len(lastOp.arg) = 1
    /\ ~lastOp.discovered
    /\ _loaded
    /\ lastOp.ret = NoneVal
    /\ lastOp.arg \notin DOMAIN _items

(***************************************************************************)
(* C7  Lazy bootstrap equivalence                                          *)
(***************************************************************************)
\* discoverAll() then get(X), from the object state s
C7_Script(s, X) ==
    LET d == _load_all_items(s, << >>)
    IN  IF d.raised # "none" THEN d ELSE get(d.s, X)

\* the step gave the result and the index of the script run on its start state
C7_Same(X) ==
    /\ lastOp'.ret = C7_Script(Self, X).ret
    /\ lastOp'.raised = C7_Script(Self, X).raised
    /\ _items' = C7_Script(Self, X).s._items

C7_OriginalStep == \A X \in Names : (Called("get", X) /\ ~_loaded) => C7_Same(X)

\* C7 as stated: from a NotLoaded registry, for every name X, get(X) gives the
\* same result and leaves the same index as discoverAll() followed by get(X).
C7_Original == [][C7_OriginalStep]_vars

C7_Step == \A X \in Names : (Called("get", X) /\ ~_loaded /\ X # << >>) => C7_Same(X)

\* C7 amended: the same for every non-empty name X (get of the empty name
\* returns nothing without running the discovery, so it leaves the index as it
\* was).
C7_LazyBootstrap == [][C7_Step]_vars

\* a get that ran the lazy bootstrap and found its class
C7_Witness == lastOp.op = "get" /\ lastOp.discovered /\ isclass(lastOp.ret)

(***************************************************************************)
(* C8  Idempotent discovery                                                *)
(***************************************************************************)
C8_Step == (runs >= 1 /\ Called("discoverAll", << >>)) => _items' = _items

\* C8: once a discovery has run over the root list, a further discoverAll()
\* without extraRoot leaves the index with exactly the same key -> class
\* mapping.
C8_Idempotent == [][C8_Step]_vars

\* a second discovery over a root list that yields classes
C8_Witness ==
    /\ lastOp.op = "discoverAll"
    /\ lastOp.arg = << >>
    /\ runs >= 2
    /\ _loaded
    /\ <<"Product">> \in DOMAIN _items

(***************************************************************************)
(* C9  Short name and path are distinct keys                               *)
(***************************************************************************)
C9_Step ==
    \A p \in Paths :
        (/\ Called("load", p) /\ Len(p) >= 2
         /\ <<ClassNameOf(p)>> \in DOMAIN _items
         /\ p \notin DOMAIN _items
         /\ isclass(lastOp'.ret))
            => /\ _items' = DictSet(_items, p, TargetClass(p))
               /\ DictGet(_items', <<ClassNameOf(p)>>) = _items[<<ClassNameOf(p)>>]
               /\ TargetClass(p) = _items[<<ClassNameOf(p)>>]
                      => DictGet(_items', p) = DictGet(_items', <<ClassNameOf(p)>>)

\* C9: when the index holds a class under short name Foo and load("m.Foo")
\* succeeds through the import, the class is stored under key "m.Foo" only, the
\* entry under "Foo" is unchanged, and when the path names the discovered class
\* itself both keys map to the same class.
C9_Distinctness == [][C9_Step]_vars

\* the path key and the short-name key hold different classes named Product
C9_Witness ==
    /\ FallbackHit
    /\ <<lastOp.ret.name>> \in DOMAIN _items
    /\ lastOp.arg \in DOMAIN _items
    /\ _items[lastOp.arg] # _items[<<lastOp.ret.name>>]

(***************************************************************************)
(* C10  LoadedFlag is one-way                                              *)
(***************************************************************************)
\* C10: once LoadedFlag is true it is true in every later state, also after
\* calls that fail.
C10_LoadedOneWay == [][_loaded => _loaded']_vars

\* a discovery aborted in the Loaded state
C10_Witness == _loaded /\ lastOp.op = "discoverAll" /\ lastOp.raised # "none"

(***************************************************************************)
(* C11  When LoadedFlag becomes true                                       *)
(***************************************************************************)
\* the extra root of the discovery a step runs, and that discovery
StepExtra == IF lastOp'.op \in {"discoverAll", "__init__"} THEN lastOp'.arg ELSE << >>

StepRun == _load_all_items(Self, StepExtra)

\* in the state after the step every root was walked or its failure tolerated
EveryRootWalked ==
    \A i \in 1..Len(item_modules') :
        \/ /\ ResolvableRoot(item_modules'[i])
           /\ RecordClassKeys(item_modules'[i]) \subseteq DOMAIN _items'
        \/ /\ ~ResolvableRoot(item_modules'[i])
           /\ on_import_error(Self) = "skip"

C11_Step ==
    /\ (~_loaded /\ _loaded') =>
           /\ lastOp'.discovered
           /\ StepRun.raised = "none"
           /\ EveryRootWalked
    /\ (lastOp'.discovered /\ StepRun.raised # "none") => _loaded' = _loaded

\* C11: LoadedFlag becomes true only at the end of a discovery run in which
\* every root of the list was walked or failed with the failure tolerated; a
\* discovery run that aborts leaves LoadedFlag at its previous value.
C11_LoadedOnlyOnCompletion == [][C11_Step]_vars

\* a discovery over two roots has completed
C11_Witness ==
    /\ lastOp.discovered
    /\ lastOp.raised = "none"
    /\ _loaded
    /\ Len(item_modules) = 2
    /\ DOMAIN _items # {}

(***************************************************************************)
(* C12  Fatal abort                                                        *)
(***************************************************************************)
\* the last call ran a discovery whose exception reached the caller
DiscoveryRaised == lastOp.discovered /\ lastOp.raised # "none"

\* the roots the discovery scans before the first unresolvable one
RootsBeforeFailure ==
    {i \in 1..Len(item_modules) : \A j \in 1..i : ResolvableRoot(item_modules[j])}

\* what the roots scanned before the abort found is in the index and the log
C12_KeepsEarlierWork ==
    DiscoveryRaised =>
        \A i \in RootsBeforeFailure :
            \A k \in RecordClassKeys(item_modules[i]) :
                k \in DOMAIN _items /\ k[1] \in DOMAIN _found

\* C12: when discoverAll aborts while enumerating the k-th root, every record
\* class found in roots 1..k-1 is still in the index and the log, and in
\* non-warn-only mode the enumeration failure (the ImportError) is propagated
\* to the caller of discoverAll/list/get.
C12_FatalAbort ==
    /\ C12_KeepsEarlierWork
    /\ (/\ DiscoveryRaised
        /\ ~settings.WARN_ONLY
        /\ lastOp.op \in {"discoverAll", "list", "get"}) => lastOp.raised = "ImportError"

(***************************************************************************)
(* C13  get is a pure lookup                                               *)
(***************************************************************************)
C13_Step ==
    \A X \in Names :
        Called("get", X) =>
            /\ lastOp'.imported = {}
            /\ fallback' = fallback
            /\ _items' \in {_items, _load_all_items(Self, << >>).s._items}
            /\ _loaded =>
                  /\ UNCHANGED <<item_modules, _items, _found, _loaded>>
                  /\ lastOp'.raised = "none"
                  /\ lastOp'.ret = DictGet(_items, X)

ShortNames ==
    UNION { {Members(m)[i].val.name : i \in 1..Len(Members(m))} : m \in Modules }

\* module m declares a record class named n itself
LocallyDeclared(m, n) ==
    \E i \in 1..Len(Members(m)) : Members(m)[i].val = Class(m, n, TRUE)

\* the scan order: <<i, j>> is the j-th module of the i-th root
ScanPositions ==
    UNION { {<<i, j>> : j \in 1..Len(walk_modules(item_modules[i]).mods)} :
              i \in 1..Len(item_modules) }

ModuleAt(q) == walk_modules(item_modules[q[1]]).mods[q[2]]

\* the scan positions of the modules that declare n
Declaring(n) == {q \in ScanPositions : LocallyDeclared(ModuleAt(q), n)}

ScannedBefore(q, r) == q[1] < r[1] \/ (q[1] = r[1] /\ q[2] <= r[2])

\* the module scanned last among those that declare n
LastDeclaring(n) ==
    ModuleAt(CHOOSE r \in Declaring(n) : \A q \in Declaring(n) : ScannedBefore(q, r))

\* C14: a discovery over resolvable roots completes without error, and every
\* short name declared as a record class in more than one scanned module is
\* indexed once, with the class of the module scanned last.
C14_LastWriteWins ==
    (lastOp.discovered /\ AllRootsResolvable) =>
        /\ lastOp.raised = "none"
        /\ _loaded
        /\ \A n \in ShortNames :
               Cardinality(Declaring(n)) > 1 =>
                   /\ <<n>> \in DOMAIN _items
                   /\ DictGet(_items, <<n>>) = Class(LastDeclaring(n), n, TRUE)

\* Product is declared under both roots and the root scanned last wins
C14_Witness ==
    /\ lastOp.discovered
    /\ item_modules = <<ShopItems, CrawlItems>>
    /\ <<"Product">> \in DOMAIN _items
    /\ _items[<<"Product">>] = Class(CrawlItems, "Product", TRUE)

(***************************************************************************)
(* C15  Construction                                                       *)
(***************************************************************************)
\* the last call is a construction that returned
Constructed == lastOp.op = "__init__" /\ pc = "ready"

\* C15: an eager construction that returns leaves LoadedFlag true and the root
\* list equal to the configured roots followed by "<identifier>.items", all of
\* them scanned; a lazy construction runs no discovery and leaves LoadedFlag
\* false, index and log empty and the root list equal to the configured roots.
C15_Construction ==
    Constructed =>
        IF lastOp.arg # << >>
        THEN /\ _loaded
             /\ item_modules = Append(settings.ITEM_MODULES, settings.BOT_NAME \o <<"items">>)
             /\ \A i \in 1..Len(item_modules) :
                    /\ ResolvableRoot(item_modules[i])
                    /\ RecordClassKeys(item_modules[i]) \subseteq DOMAIN _items
        ELSE /\ ~lastOp.discovered
             /\ ~_loaded
             /\ _items = << >>
             /\ _found = << >>
             /\ item_modules = settings.ITEM_MODULES

\* an eager construction with one configured root and the default root
C15_Witness ==
    /\ Constructed
    /\ lastOp.arg # << >>
    /\ Len(item_modules) = 2
    /\ _loaded

(***************************************************************************)
(* C16  list                                                               *)
(***************************************************************************)
C16_Step ==
    /\ Called("list", << >>) =>
           /\ lastOp'.discovered <=> ~_loaded
           /\ lastOp'.raised = "none" =>
                  /\ lastOp'.keys = DOMAIN _items'
                  /\ DOMAIN fallback \subseteq lastOp'.keys
    /\ (_loaded /\ lastOp'.op \in {"list", "get"}) => ~lastOp'.discovered

\* C16: list() runs the discovery if and only if LoadedFlag is false at the
\* call, so once a bootstrap has completed no later list()/get() runs it
\* again; list() returns exactly the keys of the index, the full-path keys
\* cached by earlier loads included.
C16_List == [][C16_Step]_vars

\* list in the Loaded state returns a cached path among the keys
C16_Witness ==
    /\ lastOp.op = "list"
    /\ ~lastOp.discovered
    /\ \E k \in lastOp.keys : Len(k) >= 2
    /\ \E k \in lastOp.keys : Len(k) = 1

(***************************************************************************)
(* C17  Retry after an aborted discovery                                   *)
(***************************************************************************)
\* number of occurrences logged for a short name
LogLen(f, n) == IF n \in DOMAIN f THEN Len(f[n]) ELSE 0

\* the log keeps what it held
LogExtended ==
    \A n \in DOMAIN _found :
        /\ n \in DOMAIN _found'
        /\ Len(_found'[n]) >= Len(_found[n])
        /\ SubSeq(_found'[n], 1, Len(_found[n])) = _found[n]

\* the occurrences of n in the roots scanned before the first unresolvable one
DeclaringBeforeFailure(n) == {q \in Declaring(n) : q[1] \in RootsBeforeFailure}

\* a lazy bootstrap was aborted and the registry is still NotLoaded
AbortedBefore == pc = "ready" /\ lazy_aborted /\ ~_loaded

C17_Rerun ==
    /\ lastOp'.discovered
    /\ ~_loaded'
    /\ _items' = _items
    /\ lastOp'.op \in {"list", "get"} => lastOp'.raised # "none"
    /\ LogExtended
    /\ \A n \in ShortNames :
           LogLen(_found', n) = LogLen(_found, n) + Cardinality(DeclaringBeforeFailure(n))

C17_OriginalStep ==
    (AbortedBefore /\ lastOp'.op \in {"list", "get", "load"}) => C17_Rerun

\* C17 as stated: after an aborted bootstrap LoadedFlag stays false and every
\* later list/get/load call re-runs the discovery from the first root, which
\* appends the occurrences of the roots before the failing one to the log
\* again; list and get keep failing and the index does not change.
C17_Original == [][C17_OriginalStep]_vars

C17_Step ==
    (/\ AbortedBefore
     /\ \/ lastOp'.op = "list"
        \/ lastOp'.op \in {"get", "load"} /\ lastOp'.arg # << >>) => C17_Rerun

\* C17 amended: the same for list() and for get/load of a non-empty name (get
\* and load of the empty name return nothing without running the discovery).
C17_Retry == [][C17_Step]_vars

\* a second aborted bootstrap that logged the first root's classes again
C17_Witness ==
    /\ lastOp.op = "get"
    /\ lastOp.discovered
    /\ lastOp.raised # "none"
    /\ runs >= 2
    /\ LogLen(_found, "Product") >= 2 * Cardinality(DeclaringBeforeFailure("Product"))
    /\ DeclaringBeforeFailure("Product") # {}

(***************************************************************************)
(* C18  The two keyspaces                                                  *)
(***************************************************************************)
\* the index as get leaves it, before the import of load
IndexAfterGet(p) == get(Self, p).s._items

C18_Step ==
    /\ \A p \in DOMAIN fallback' :
           /\ Len(p) >= 2
           /\ p \in DOMAIN _items'
           /\ DictGet(_items', p) = fallback'[p]
    /\ \A p \in Paths :
           (Called("load", p) /\ lastOp'.imported # {}) =>
               /\ \A k \in DOMAIN _items' \ DOMAIN IndexAfterGet(p) : Len(k) >= 2
               /\ \A k \in DOMAIN IndexAfterGet(p) :
                      Len(k) = 1 => DictGet(_items', k) = IndexAfterGet(p)[k]

\* C18: every key the fallback of load inserts has a separator, so the
\* insertion never overwrites a discovered short-name entry, and no later call
\* (a later discovery included) overwrites or removes a cached path entry.
C18_Keyspaces == [][C18_Step]_vars

\* a discovery ran after a path was cached, next to a short name of that class name
C18_Witness ==
    /\ lastOp.op = "discoverAll"
    /\ lastOp.raised = "none"
    /\ \E p \in DOMAIN fallback : p \in DOMAIN _items /\ <<p[Len(p)]>> \in DOMAIN _items

(***************************************************************************)
(* C19  OccurrenceLog and DiscoveryIndex                                   *)
(***************************************************************************)
\* every logged short name is indexed with the class of its last occurrence
C19_Consistent ==
    \A n \in DOMAIN _found :
        /\ _found[n] # << >>
        /\ <<n>> \in DOMAIN _items
        /\ DictGet(_items, <<n>>) = Class(_found[n][Len(_found[n])][1], n, TRUE)
        /\ _found[n][Len(_found[n])][2] = n
        /\ LocallyDeclared(_found[n][Len(_found[n])][1], n)

C19_Step ==
    /\ LogExtended
    /\ ~lastOp'.discovered => _found' = _found

\* C19: in every state each short name with a logged occurrence is a key of
\* the index, indexed with the class declared in the module of its last
\* occurrence; the log is append-only, and a call that runs no discovery (get
\* and list in the Loaded state, the fallback of load) does not touch it.
C19_LogConsistency == []C19_Consistent /\ [][C19_Step]_vars

\* Product was logged in several modules over two runs
C19_Witness ==
    /\ "Product" \in DOMAIN _found
    /\ Len(_found["Product"]) >= 4
    /\ lastOp.op = "load"
    /\ ~lastOp.discovered

(***************************************************************************)
(* C20  The index only grows and holds classes                             *)
(***************************************************************************)
\* the pairs logged for a short name
Logged(n) == IF n \in DOMAIN _found THEN {_found[n][i] : i \in 1..Len(_found[n])} ELSE {}

C20_OnlyClasses ==
    \A k \in DOMAIN _items :
        IF Len(k) = 1
        THEN /\ isclass(_items[k])
             /\ _items[k].item
             /\ _items[k].name = k[1]
             /\ <<_items[k].mod, k[1]>> \in Logged(k[1])
             /\ \A pair \in Logged(k[1]) : LocallyDeclared(pair[1], k[1])
        ELSE isclass(_items[k])

C20_Step == DOMAIN _items \subseteq DOMAIN _items'

\* C20: no call removes a key from the index; a value under a short-name key
\* is a record class declared in the module it was found in while scanning
\* (re-exported classes are never indexed), and a value under a path key is a
\* class.
C20_IndexGrows == []C20_OnlyClasses /\ [][C20_Step]_vars

\* the index holds a discovered record class and a cached class that is no record class
C20_Witness ==
    /\ <<"Product">> \in DOMAIN _items
    /\ \E k \in DOMAIN _items : Len(k) >= 2 /\ ~_items[k].item
    /\ lastOp.op = "discoverAll"

====
